---- MODULE Spec2Model ----
(***************************************************************************)
(* A model of the cargo-tools test crates: the string and data utilities   *)
(* of test-rust-project/utils, validate_config, and the Config/CoreService *)
(* pair of the core crate.                                                 *)
(*                                                                         *)
(* A Rust &str / String is modelled as the sequence of its chars (Unicode  *)
(* scalar values), each char written as a one-element TLA+ string; the     *)
(* char U+00DF (sharp s) is written "U+00DF".  An f64 is modelled as a     *)
(* record: a reduced fraction, an infinity or NaN.  A Result<T> is a       *)
(* record [ok, val] (Ok) or [ok, err] (Err).                               *)
(***************************************************************************)
EXTENDS Integers, Sequences, FiniteSets, TLC

VARIABLES
    s,          \* strings: the &str handed to the string utilities
    sret,       \* strings: the last call made on s and what it returned
    points,     \* data: the caller's slice of DataPoint
    threshold,  \* data: the f64 threshold
    dret,       \* data: the last call made on points and what it returned
    given,      \* core: the Config the caller hands to CoreService::new
    service,    \* core: the CoreService, NoService before construction
    pc          \* core: per caller, the call in progress or last returned

vars == <<s, sret, points, threshold, dret, given, service, pc>>

-----------------------------------------------------------------------------
(* Bounds *)

MaxLen == 4        \* longest input string of the string utilities
MaxPoints == 3     \* longest slice of data points
MaxText == 1       \* longest text handed to process_data
NumCallers == 2    \* callers sharing one CoreService

-----------------------------------------------------------------------------
(* Sequences up to a length *)

SeqUpTo(S, n) == UNION {[1..k -> S] : k \in 0..n}

-----------------------------------------------------------------------------
(* std: char and str primitives used by utils::strings *)

\* The chars the inputs are built from: a lowercase letter, an uppercase
\* letter, a lowercase letter whose uppercase mapping is two chars, two
\* kinds of whitespace, and the two chars validate_email looks for.
Alphabet == {"a", "A", "U+00DF", " ", "\t", "@", "."}

\* char::to_uppercase: an iterator of one or more chars.
to_uppercase(c) ==
    CASE c = "a" -> <<"A">>
      [] c = "U+00DF" -> <<"S", "S">>
      [] OTHER -> <<c>>

\* char::is_whitespace
is_whitespace(c) == c \in {" ", "\t", "\n"}

\* str::contains(char): scan from the front.
RECURSIVE contains(_, _)
contains(str, c) ==
    IF str = <<>> THEN FALSE
    ELSE IF Head(str) = c THEN TRUE
    ELSE contains(Tail(str), c)

\* str::split(char::is_whitespace): the pieces between separators, empty
\* pieces included.  cur is the piece being read.
RECURSIVE split(_, _)
split(str, cur) ==
    IF str = <<>> THEN <<cur>>
    ELSE IF is_whitespace(Head(str)) THEN <<cur>> \o split(Tail(str), <<>>)
    ELSE split(Tail(str), Append(cur, Head(str)))

\* str::split_whitespace: split(char::is_whitespace) without empty pieces.
split_whitespace(str) == SelectSeq(split(str, <<>>), LAMBDA w : w # <<>>)

\* Iterator::rev().collect(): the items taken from the back.
RECURSIVE rev(_)
rev(str) ==
    IF str = <<>> THEN <<>>
    ELSE <<str[Len(str)]>> \o rev(SubSeq(str, 1, Len(str) - 1))

-----------------------------------------------------------------------------
(* utils::strings *)

Ok(v) == [ok |-> TRUE, val |-> v]
Err(m) == [ok |-> FALSE, err |-> m]

capitalize_lowercases(str) ==
    IF str = <<>> THEN <<>>
    ELSE to_uppercase(Head(str)) \o [i \in 1..(Len(str) - 1) |->
             IF str[i + 1] = "A" THEN "a" ELSE str[i + 1]]

capitalize(str) ==
    IF str = <<>> THEN <<>>
    ELSE to_uppercase(Head(str)) \o Tail(str)

reverse_drops_first(str) == IF str = <<>> THEN <<>> ELSE rev(Tail(str))

reverse(str) == rev(str)

word_count_split_each(str) == Len(split(str, <<>>))

word_count(str) == Len(split_whitespace(str))

validate_email_either(email) == Ok(contains(email, "@") \/ contains(email, "."))

validate_email(email) == Ok(contains(email, "@") /\ contains(email, "."))

-----------------------------------------------------------------------------
(* The string utilities applied to an input *)

Strings == SeqUpTo(Alphabet, MaxLen)

NoCall == [op |-> "none", val |-> <<>>]

IdleData ==
    /\ points = <<>>
    /\ threshold = <<>>
    /\ dret = NoCall

IdleCore ==
    /\ given = <<>>
    /\ service = <<>>
    /\ pc = <<>>

IdleStrings ==
    /\ s = <<>>
    /\ sret = NoCall

InitStrings ==
    /\ s \in Strings
    /\ sret = NoCall
    /\ IdleData
    /\ IdleCore

Capitalize ==
    /\ sret' = [op |-> "capitalize", val |-> capitalize(s)]
    /\ UNCHANGED <<s, points, threshold, dret, given, service, pc>>

Reverse ==
    /\ sret' = [op |-> "reverse", val |-> reverse(s)]
    /\ UNCHANGED <<s, points, threshold, dret, given, service, pc>>

\* reverse applied to what reverse returned
ReverseAgain ==
    /\ sret.op = "reverse"
    /\ sret' = [op |-> "reverse_reverse", val |-> reverse(sret.val)]
    /\ UNCHANGED <<s, points, threshold, dret, given, service, pc>>

WordCount ==
    /\ sret' = [op |-> "word_count", val |-> word_count(s)]
    /\ UNCHANGED <<s, points, threshold, dret, given, service, pc>>

ValidateEmail ==
    /\ sret' = [op |-> "validate_email", val |-> validate_email(s)]
    /\ UNCHANGED <<s, points, threshold, dret, given, service, pc>>

NextStrings ==
    \/ Capitalize
    \/ Reverse
    \/ ReverseAgain
    \/ WordCount
    \/ ValidateEmail

SpecStrings == InitStrings /\ [][NextStrings]_vars

-----------------------------------------------------------------------------
(* f64 arithmetic used by utils::data.  A finite value is a reduced       *)
(* fraction num/den with den > 0 (rounding to the nearest f64 is left out: *)
(* the values of the model and their sums and quotients are kept exact).   *)

RECURSIVE GCD(_, _)
GCD(a, b) == IF b = 0 THEN a ELSE GCD(b, a % b)

Abs(n) == IF n < 0 THEN -n ELSE n

Frac(n, d) ==
    LET g == GCD(Abs(n), d)
    IN  [kind |-> "num", num |-> n \div g, den |-> d \div g]

F(n) == [kind |-> "num", num |-> n, den |-> 1]
NaN == [kind |-> "nan", num |-> 0, den |-> 1]
Inf(sign) == [kind |-> "inf", num |-> sign, den |-> 1]

\* a + b
fadd(a, b) ==
    IF a.kind = "nan" \/ b.kind = "nan" THEN NaN
    ELSE IF a.kind = "inf" /\ b.kind = "inf"
         THEN IF a.num = b.num THEN a ELSE NaN
    ELSE IF a.kind = "inf" THEN a
    ELSE IF b.kind = "inf" THEN b
    ELSE Frac(a.num * b.den + b.num * a.den, a.den * b.den)

\* a / (n as f64), n a usize
fdiv(a, n) ==
    IF a.kind = "nan" THEN NaN
    ELSE IF a.kind = "inf" THEN a
    ELSE IF n = 0
         THEN IF a.num = 0 THEN NaN ELSE Inf(IF a.num > 0 THEN 1 ELSE -1)
    ELSE Frac(a.num, a.den * n)

\* a >= b: false whenever an operand is NaN
fge(a, b) ==
    IF a.kind = "nan" \/ b.kind = "nan" THEN FALSE
    ELSE IF a.kind = "inf" THEN a.num = 1 \/ (b.kind = "inf" /\ b.num = -1)
    ELSE IF b.kind = "inf" THEN b.num = -1
    ELSE a.num * b.den >= b.num * a.den

-----------------------------------------------------------------------------
(* utils::data *)

Values == {F(-1), F(1), F(2), NaN}
Labels == {"A", "B"}

Ids == {1, 2}

DataPoint == [id : Ids, value : Values, label : Labels]

\* points.iter().map(|p| p.value).sum(): a left fold from 0.0
RECURSIVE sum(_, _)
sum(pts, acc) ==
    IF pts = <<>> THEN acc
    ELSE sum(Tail(pts), fadd(acc, Head(pts).value))

process_data_points_unguarded(pts) == Ok(fdiv(sum(pts, F(0)), Len(pts)))

process_data_points(pts) ==
    IF pts = <<>> THEN Ok(F(0))
    ELSE Ok(fdiv(sum(pts, F(0)), Len(pts)))

\* iter().filter(pred).cloned().collect()
RECURSIVE filter(_, _)
filter(pts, t) ==
    IF pts = <<>> THEN <<>>
    ELSE IF fge(Head(pts).value, t)
         THEN <<Head(pts)>> \o filter(Tail(pts), t)
    ELSE filter(Tail(pts), t)

filter_by_threshold_strict(pts, t) ==
    SelectSeq(pts, LAMBDA p : fge(p.value, t) /\ ~fge(t, p.value))

filter_by_threshold_skips_first(pts, t) ==
    IF pts = <<>> THEN <<>> ELSE filter(Tail(pts), t)

filter_by_threshold(pts, t) == filter(pts, t)

-----------------------------------------------------------------------------
(* The data utilities applied to an input *)

InitData ==
    /\ points \in SeqUpTo(DataPoint, MaxPoints)
    /\ threshold \in Values
    /\ dret = NoCall
    /\ IdleStrings
    /\ IdleCore

ProcessDataPoints ==
    /\ dret' = [op |-> "process_data_points", val |-> process_data_points(points)]
    /\ UNCHANGED <<s, sret, points, threshold, given, service, pc>>

FilterByThreshold ==
    /\ dret' = [op |-> "filter_by_threshold",
                val |-> filter_by_threshold(points, threshold)]
    /\ UNCHANGED <<s, sret, points, threshold, given, service, pc>>

\* filter_by_threshold applied to what filter_by_threshold returned
FilterAgain ==
    /\ dret.op = "filter_by_threshold"
    /\ dret' = [op |-> "filter_again",
                val |-> [first |-> dret.val,
                         second |-> filter_by_threshold(dret.val, threshold)]]
    /\ UNCHANGED <<s, sret, points, threshold, given, service, pc>>

NextData ==
    \/ ProcessDataPoints
    \/ FilterByThreshold
    \/ FilterAgain

SpecData == InitData /\ [][NextData]_vars

-----------------------------------------------------------------------------
(* core: Config and CoreService *)

DefaultName ==
    <<"c", "a", "r", "g", "o", "-", "t", "o", "o", "l", "s", "-", "t", "e", "s", "t">>
DefaultVersion == <<"0", ".", "1", ".", "0">>

Config_default == [name |-> DefaultName, version |-> DefaultVersion]

CoreService_new_default(config) == [config |-> Config_default]

CoreService_new(config) == [config |-> config]

get_config(self) == self.config

\* format!("[{}] Processed: {}", self.config.name, data)
process_data_version(self, data) ==
    Ok(<<"[">> \o self.config.version
        \o <<"]", " ", "P", "r", "o", "c", "e", "s", "s", "e", "d", ":", " ">>
        \o data)

process_data(self, data) ==
    Ok(<<"[">> \o self.config.name
        \o <<"]", " ", "P", "r", "o", "c", "e", "s", "s", "e", "d", ":", " ">>
        \o data)

-----------------------------------------------------------------------------
(* utils: configuration utilities *)

\* Config::default() of the core crate, the same Config as above
create_default_config == Config_default

validate_config_version_first(config) ==
    IF config.version = <<>> THEN Err("Config version cannot be empty")
    ELSE IF config.name = <<>> THEN Err("Config name cannot be empty")
    ELSE Ok(<<>>)

validate_config(config) ==
    IF config.name = <<>> THEN Err("Config name cannot be empty")
    ELSE IF config.version = <<>> THEN Err("Config version cannot be empty")
    ELSE Ok(<<>>)

-----------------------------------------------------------------------------
(* Callers sharing one CoreService *)

Callers == 1..NumCallers

Names == {<<>>, <<"a">>, DefaultName}
Versions == {<<>>, <<"1", ".", "0">>, DefaultVersion}
Configs == [name : Names, version : Versions]

Texts == SeqUpTo({"x", "]"}, MaxText)

NoService == [config |-> <<>>]

Idle == [state |-> "idle", op |-> "none", arg |-> <<>>, val |-> <<>>]

InitCore ==
    /\ given \in Configs
    /\ service = NoService
    /\ pc = [c \in Callers |-> Idle]
    /\ IdleStrings
    /\ IdleData

\* let service = CoreService::new(config)
New ==
    /\ service = NoService
    /\ service' = CoreService_new(given)
    /\ UNCHANGED <<s, sret, points, threshold, dret, given, pc>>

CallGetConfig(c) ==
    /\ service # NoService
    /\ pc[c].state # "calling"
    /\ pc' = [pc EXCEPT ![c] =
                 [state |-> "calling", op |-> "get_config", arg |-> <<>>, val |-> <<>>]]
    /\ UNCHANGED <<s, sret, points, threshold, dret, given, service>>

ReturnGetConfig(c) ==
    /\ pc[c].state = "calling"
    /\ pc[c].op = "get_config"
    /\ pc' = [pc EXCEPT ![c].state = "returned", ![c].val = get_config(service)]
    /\ UNCHANGED <<s, sret, points, threshold, dret, given, service>>

CallProcessData(c, text) ==
    /\ service # NoService
    /\ pc[c].state # "calling"
    /\ pc' = [pc EXCEPT ![c] =
                 [state |-> "calling", op |-> "process_data", arg |-> text, val |-> <<>>]]
    /\ UNCHANGED <<s, sret, points, threshold, dret, given, service>>

ReturnProcessData(c) ==
    /\ pc[c].state = "calling"
    /\ pc[c].op = "process_data"
    /\ pc' = [pc EXCEPT ![c].state = "returned",
                        ![c].val = process_data(service, pc[c].arg)]
    /\ UNCHANGED <<s, sret, points, threshold, dret, given, service>>

\* validate_config(&config), on any Config the caller holds
ValidateConfig(c, config) ==
    /\ pc[c].state # "calling"
    /\ pc' = [pc EXCEPT ![c] =
                 [state |-> "returned", op |-> "validate_config", arg |-> config,
                  val |-> validate_config(config)]]
    /\ UNCHANGED <<s, sret, points, threshold, dret, given, service>>

NextCore ==
    \/ New
    \/ \E c \in Callers : CallGetConfig(c)
    \/ \E c \in Callers : ReturnGetConfig(c)
    \/ \E c \in Callers, text \in Texts : CallProcessData(c, text)
    \/ \E c \in Callers : ReturnProcessData(c)
    \/ \E c \in Callers, config \in Configs \cup {create_default_config} :
           ValidateConfig(c, config)

SpecCore == InitCore /\ [][NextCore]_vars

-----------------------------------------------------------------------------
(* Properties of the string utilities, checked under SpecStrings *)

\* C6: validate_email(s) is Ok(true) exactly when s holds an '@' and a '.',
\* at any positions and in any order, and Ok(false) otherwise; never an Err.
C6_ValidateEmail ==
    sret.op = "validate_email" =>
        /\ sret.val.ok
        /\ sret.val.val <=> /\ \E i \in 1..Len(s) : s[i] = "@"
                            /\ \E j \in 1..Len(s) : s[j] = "."

\* ".@" is accepted: the '.' before the '@'.
C6_Witness ==
    /\ sret.op = "validate_email"
    /\ s = <<".", "@">>
    /\ sret.val = Ok(TRUE)

\* The positions of s where a maximal run of non-whitespace chars starts.
RunStarts(str) ==
    {i \in 1..Len(str) :
        /\ ~is_whitespace(str[i])
        /\ i = 1 \/ is_whitespace(str[i - 1])}

\* C7: word_count(s) is the number of maximal runs of non-whitespace chars
\* of s; 0 for an empty or all-whitespace s.
C7_WordCount ==
    sret.op = "word_count" =>
        /\ sret.val = Cardinality(RunStarts(s))
        /\ (\A i \in 1..Len(s) : is_whitespace(s[i])) => sret.val = 0

\* Two words parted by two whitespace chars of different kinds.
C7_Witness ==
    /\ sret.op = "word_count"
    /\ s = <<"a", " ", "\t", "A">>
    /\ sret.val = 2

\* C8: capitalize("") is ""; otherwise the result is the uppercase mapping
\* of the first char followed by the remaining chars unchanged, and equals s
\* when the first char is already uppercase or has no case.
C8_Capitalize ==
    sret.op = "capitalize" =>
        IF s = <<>> THEN sret.val = <<>>
        ELSE LET u == to_uppercase(s[1])
                 r == sret.val
             IN  /\ Len(r) = Len(u) + Len(s) - 1
                 /\ \A i \in 1..Len(u) : r[i] = u[i]
                 /\ \A i \in 2..Len(s) : r[Len(u) + i - 1] = s[i]
                 /\ s[1] \in {"A", " ", "\t", "@", "."} => r = s

\* A lowercase first char, then a lowercase and an uppercase char kept.
C8_Witness ==
    /\ sret.op = "capitalize"
    /\ s = <<"a", "a", "A">>
    /\ sret.val = <<"A", "a", "A">>

\* C9: reverse(s) has the chars of s in the opposite order, char by char,
\* and reverse(reverse(s)) is s.
C9_Reverse ==
    /\ sret.op = "reverse" =>
           /\ Len(sret.val) = Len(s)
           /\ \A i \in 1..Len(s) : sret.val[i] = s[Len(s) + 1 - i]
    /\ sret.op = "reverse_reverse" => sret.val = s

\* A string that is no palindrome, reversed twice.
C9_Witness ==
    /\ sret.op = "reverse_reverse"
    /\ Len(s) >= 3
    /\ s[1] # s[Len(s)]
    /\ sret.val = s

-----------------------------------------------------------------------------
(* Properties of the data utilities, checked under SpecData *)

\* The indices of the points that pass the threshold.
Kept(pts, t) == {i \in 1..Len(pts) : fge(pts[i].value, t)}

\* The k-th smallest index of a set of indices.
Nth(K, k) == CHOOSE i \in K : Cardinality({j \in K : j < i}) = k - 1

\* C3: filter_by_threshold(points, t) is the points with value >= t (a value
\* equal to t included), each once and whole, in their input order; the
\* input is left as it was.
C3_Filter ==
    /\ [](dret.op = "filter_by_threshold" =>
            LET K == Kept(points, threshold)
            IN  /\ Len(dret.val) = Cardinality(K)
                /\ \A k \in 1..Len(dret.val) : dret.val[k] = points[Nth(K, k)])
    /\ [][points' = points /\ threshold' = threshold]_vars

\* A point whose value equals the threshold is kept and another is dropped.
C3_Witness ==
    /\ dret.op = "filter_by_threshold"
    /\ \E i \in 1..Len(points) :
           /\ points[i].value = threshold
           /\ \E k \in 1..Len(dret.val) : dret.val[k] = points[i]
    /\ Len(dret.val) < Len(points)

\* C4: filtering the result of filter_by_threshold again with the same
\* threshold returns that result.
C4_FilterIdempotent ==
    dret.op = "filter_again" => dret.val.second = dret.val.first

\* The first pass kept some points and dropped others.
C4_Witness ==
    /\ dret.op = "filter_again"
    /\ dret.val.first # <<>>
    /\ Len(dret.val.first) < Len(points)
    /\ dret.val.second = dret.val.first

\* The sum of the numerators of finite values of denominator 1.
RECURSIVE NumSum(_)
NumSum(pts) == IF pts = <<>> THEN 0 ELSE Head(pts).value.num + NumSum(Tail(pts))

\* C5: process_data_points is Ok(0.0) on the empty slice and otherwise
\* Ok(sum of the values / number of points); with f64 arithmetic, a NaN
\* among the values makes that quotient NaN.
C5_Mean ==
    dret.op = "process_data_points" =>
        /\ dret.val.ok
        /\ points = <<>> => dret.val.val = F(0)
        /\ points # <<>> =>
               IF \E i \in 1..Len(points) : points[i].value.kind = "nan"
               THEN dret.val.val = NaN
               ELSE /\ dret.val.val.kind = "num"
                    /\ dret.val.val.den > 0
                    /\ dret.val.val.num * Len(points)
                           = NumSum(points) * dret.val.val.den

\* Three points whose mean is no integer.
C5_Witness ==
    /\ dret.op = "process_data_points"
    /\ Len(points) = 3
    /\ dret.val.ok
    /\ dret.val.val.kind = "num"
    /\ dret.val.val.den = 3

-----------------------------------------------------------------------------
(* Properties of validate_config and CoreService, checked under SpecCore *)

Returned(c, op) == pc[c].state = "returned" /\ pc[c].op = op

\* C1: validate_config fails with "Config name cannot be empty" when the
\* name is empty (the version empty or not), with "Config version cannot be
\* empty" when only the version is empty, and succeeds otherwise.
C1_ValidateConfig ==
    \A c \in Callers :
        Returned(c, "validate_config") =>
            LET config == pc[c].arg
                r == pc[c].val
            IN  /\ config.name = <<>> =>
                       ~r.ok /\ r.err = "Config name cannot be empty"
                /\ config.name # <<>> /\ config.version = <<>> =>
                       ~r.ok /\ r.err = "Config version cannot be empty"
                /\ config.name # <<>> /\ config.version # <<>> => r.ok

\* Name and version both empty: the name's message wins.
C1_Witness ==
    \E c \in Callers :
        /\ Returned(c, "validate_config")
        /\ pc[c].arg = [name |-> <<>>, version |-> <<>>]
        /\ pc[c].val = Err("Config name cannot be empty")

\* C2: process_data(text) on a service built from any Config is
\* Ok("[" + name + "] Processed: " + text), for the empty name and the empty
\* text too; with Config::default() it is "[cargo-tools-test] Processed: "
\* + text.
C2_ProcessData ==
    \A c \in Callers :
        Returned(c, "process_data") =>
            LET r == pc[c].val
                n == Len(given.name)
                text == pc[c].arg
            IN  /\ r.ok
                /\ Len(r.val) = n + Len(text) + 14
                /\ r.val[1] = "["
                /\ SubSeq(r.val, 2, n + 1) = given.name
                /\ SubSeq(r.val, n + 2, n + 14)
                       = <<"]", " ", "P", "r", "o", "c", "e", "s", "s", "e", "d", ":", " ">>
                /\ SubSeq(r.val, n + 15, Len(r.val)) = text
                /\ given = Config_default =>
                       r.val = <<"[", "c", "a", "r", "g", "o", "-", "t", "o", "o", "l",
                                 "s", "-", "t", "e", "s", "t", "]", " ", "P", "r", "o",
                                 "c", "e", "s", "s", "e", "d", ":", " ">> \o text

\* The default Config and the text "x".
C2_Witness ==
    \E c \in Callers :
        /\ Returned(c, "process_data")
        /\ given = Config_default
        /\ pc[c].arg = <<"x">>
        /\ pc[c].val.ok
        /\ Len(pc[c].val.val) = 31

\* C10: a CoreService built from Config c holds c for good: whatever calls
\* the callers have made or have in progress, get_config returns c's name
\* and version and process_data(t) returns what a service freshly built
\* from c returns for t.
C10_ConfigHeld ==
    service # NoService =>
        /\ service.config = given
        /\ \A c \in Callers :
               /\ Returned(c, "get_config") =>
                      /\ pc[c].val.name = given.name
                      /\ pc[c].val.version = given.version
               /\ Returned(c, "process_data") =>
                      pc[c].val = process_data([config |-> given], pc[c].arg)

\* One caller inside process_data while another has its get_config result.
C10_Witness ==
    \E c, d \in Callers :
        /\ pc[c].state = "calling"
        /\ pc[c].op = "process_data"
        /\ Returned(d, "get_config")
        /\ pc[d].val = given
        /\ given.name = <<"a">>

====
